---- MODULE Spec2Model ----
(***************************************************************************)
(* Model of the dataset-generation pipeline of the Movie Analytics         *)
(* Dashboard: the period partitioner, the batch fetcher                    *)
(* (fetchMoviesForPeriod), the fan-out orchestrator (generateMovieDataset) *)
(* in its four source variants, and the fallback datasets.                 *)
(*                                                                         *)
(* Conventions.                                                            *)
(*  - A JavaScript string that the code inspects character by character    *)
(*    (a movie title, a dedup key) is a sequence of one-character strings. *)
(*  - A JavaScript object is a function whose DOMAIN is the set of the     *)
(*    properties it has; a missing property is missing from the DOMAIN.    *)
(*  - JavaScript null is the object Null (its only property is "jsnull").  *)
(*  - Fractional numbers of the fallback tables (imdbRating, budget,       *)
(*    revenue) are written in tenths: 8.4 is 84, 2.5 is 25.                *)
(*  - The code between two awaits runs without interleaving, so each       *)
(*    action is one such stretch of code.                                  *)
(***************************************************************************)
EXTENDS Integers, Sequences, FiniteSets, TLC

(***************************************************************************)
(* Bounds of the model (not program constants).                            *)
(***************************************************************************)
\* longest array of elements the generation source puts in one response
MaxRespLen == 2
\* how many earlier, still outstanding requests a response may overtake
MaxOvertaken == 1
\* number of mocked batch results handed to the merge step in SpecMerge
MaxBatches == 2
\* the stepping loop is applied to ranges of at most MaxSpan + 1 years and
\* to steps of at most MaxStep years
MaxSpan == 7
MaxStep == 4
\* number of checkbox toggles followed from each starting selection
MaxToggles == 3
\* number of fetchData calls followed (the one of the mount and the clicks)
MaxFetches == 4

(***************************************************************************)
(* Program constants.                                                      *)
(***************************************************************************)
startYear == 1980
endYear == 2025
step == 3
\* a wave size that takes the whole period table at once
BatchSizeAll == endYear - startYear

BATCH_SIZE == 4

Variants == {"service", "wave", "decade", "part001"}

\* the enums of types.ts
GenreValues ==
  <<"All", "Action", "Drama", "Comedy", "Sci-Fi", "Horror", "Romance",
    "Thriller", "Adventure">>

LanguageValues ==
  <<"English", "Hindi", "Tamil", "Telugu", "Malayalam", "Kannada">>

GenreType == {GenreValues[i] : i \in 1..Len(GenreValues)}

LanguageType == {LanguageValues[i] : i \in 1..Len(LanguageValues)}

Min(a, b) == IF a < b THEN a ELSE b

(***************************************************************************)
(* Strings as character sequences: toLowerCase, trim, number to string.    *)
(***************************************************************************)
LowerOf ==
     "A" :> "a" @@ "B" :> "b" @@ "C" :> "c" @@ "D" :> "d" @@ "E" :> "e" @@ "F" :> "f" @@ "G" :> "g" @@
     "H" :> "h" @@ "I" :> "i" @@ "J" :> "j" @@ "K" :> "k" @@ "L" :> "l" @@ "M" :> "m" @@ "N" :> "n" @@
     "O" :> "o" @@ "P" :> "p" @@ "Q" :> "q" @@ "R" :> "r" @@ "S" :> "s" @@ "T" :> "t" @@ "U" :> "u" @@
     "V" :> "v" @@ "W" :> "w" @@ "X" :> "x" @@ "Y" :> "y" @@ "Z" :> "z"

toLowerCase(s) ==
  [i \in 1..Len(s) |-> IF s[i] \in DOMAIN LowerOf THEN LowerOf[s[i]] ELSE s[i]]

WhiteSpace == {" ", "\t", "\n"}

trim(s) ==
  LET keep == {i \in 1..Len(s) : s[i] \notin WhiteSpace}
  IN  IF keep = {} THEN <<>>
      ELSE LET lo == CHOOSE i \in keep : \A j \in keep : i <= j
               hi == CHOOSE i \in keep : \A j \in keep : j <= i
           IN  SubSeq(s, lo, hi)

Digit == <<"0", "1", "2", "3", "4", "5", "6", "7", "8", "9">>

RECURSIVE NumToChars(_)
NumToChars(n) ==
  IF n < 10 THEN <<Digit[n + 1]>>
  ELSE NumToChars(n \div 10) \o <<Digit[(n % 10) + 1]>>

(***************************************************************************)
(* Period partitioner.                                                     *)
(***************************************************************************)
\* the loop without Math.min: the last period runs past the end year
RECURSIVE StepPeriodsNoClamp(_, _, _)
StepPeriodsNoClamp(i, last, width) ==
  IF i > last THEN <<>>
  ELSE <<<<i, i + width - 1>>>> \o StepPeriodsNoClamp(i + width, last, width)

\* for (let i = startYear; i <= endYear; i += step)
\*   periods.push({ start: i, end: Math.min(i + step - 1, endYear) })
RECURSIVE StepPeriods(_, _, _)
StepPeriods(i, last, width) ==
  IF i > last THEN <<>>
  ELSE <<<<i, Min(i + width - 1, last)>>>> \o StepPeriods(i + width, last, width)

DecadePeriods ==
  << <<1980, 1989>>, <<1990, 1999>>, <<2000, 2009>>, <<2010, 2019>>,
     <<2020, 2025>> >>

WavePeriods ==
  << <<1980, 1983>>, <<1984, 1987>>, <<1988, 1991>>,
     <<1992, 1995>>, <<1996, 1999>>, <<2000, 2003>>,
     <<2004, 2007>>, <<2008, 2011>>, <<2012, 2015>>,
     <<2016, 2019>>, <<2020, 2022>>, <<2023, 2025>> >>

PeriodsOf(v) ==
  CASE v = "wave" -> WavePeriods
    [] v = "decade" -> DecadePeriods
    [] OTHER -> StepPeriods(startYear, endYear, step)

(***************************************************************************)
(* Fallback datasets.                                                      *)
(***************************************************************************)
FALLBACK_DATA ==
  <<
  [id |-> "1", title |-> <<"O","p","p","e","n","h","e","i","m","e","r">>, language |-> "English", genre |-> "Drama", year |-> 2023, imdbRating |-> 84, rottenTomatoesRating |-> 93, budget |-> 1000, revenue |-> 9570],
  [id |-> "2", title |-> <<"R","R","R">>, language |-> "Telugu", genre |-> "Action", year |-> 2022, imdbRating |-> 78, rottenTomatoesRating |-> 95, budget |-> 690, revenue |-> 1600],
  [id |-> "3", title |-> <<"K","a","n","t","a","r","a">>, language |-> "Kannada", genre |-> "Thriller", year |-> 2022, imdbRating |-> 82, rottenTomatoesRating |-> 90, budget |-> 20, revenue |-> 500],
  [id |-> "4", title |-> <<"V","i","k","r","a","m">>, language |-> "Tamil", genre |-> "Action", year |-> 2022, imdbRating |-> 83, rottenTomatoesRating |-> 95, budget |-> 150, revenue |-> 600],
  [id |-> "5", title |-> <<"M","a","n","j","u","m","m","e","l"," ","B","o","y","s">>, language |-> "Malayalam", genre |-> "Adventure", year |-> 2024, imdbRating |-> 84, rottenTomatoesRating |-> 95, budget |-> 25, revenue |-> 290],
  [id |-> "6", title |-> <<"L","e","o">>, language |-> "Tamil", genre |-> "Action", year |-> 2023, imdbRating |-> 72, rottenTomatoesRating |-> 80, budget |-> 350, revenue |-> 750],
  [id |-> "7", title |-> <<"J","a","w","a","n">>, language |-> "Hindi", genre |-> "Action", year |-> 2023, imdbRating |-> 70, rottenTomatoesRating |-> 85, budget |-> 360, revenue |-> 1400],
  [id |-> "8", title |-> <<"K",".","G",".","F",":"," ","C","h","a","p","t","e","r"," ","2">>, language |-> "Kannada", genre |-> "Action", year |-> 2022, imdbRating |-> 83, rottenTomatoesRating |-> 88, budget |-> 120, revenue |-> 1500],
  [id |-> "9", title |-> <<"P","o","n","n","i","y","i","n"," ","S","e","l","v","a","n",":"," ","I">>, language |-> "Tamil", genre |-> "Drama", year |-> 2022, imdbRating |-> 76, rottenTomatoesRating |-> 88, budget |-> 600, revenue |-> 600],
  [id |-> "10", title |-> <<"P","u","s","h","p","a",":"," ","T","h","e"," ","R","i","s","e">>, language |-> "Telugu", genre |-> "Action", year |-> 2021, imdbRating |-> 76, rottenTomatoesRating |-> 85, budget |-> 250, revenue |-> 450],
  [id |-> "11", title |-> <<"B","a","a","h","u","b","a","l","i"," ","2",":"," ","T","h","e"," ","C","o","n","c","l","u","s","i","o","n">>, language |-> "Telugu", genre |-> "Action", year |-> 2017, imdbRating |-> 82, rottenTomatoesRating |-> 89, budget |-> 370, revenue |-> 2780],
  [id |-> "12", title |-> <<"A","v","e","n","g","e","r","s",":"," ","E","n","d","g","a","m","e">>, language |-> "English", genre |-> "Action", year |-> 2019, imdbRating |-> 84, rottenTomatoesRating |-> 94, budget |-> 3560, revenue |-> 27970],
  [id |-> "13", title |-> <<"D","a","n","g","a","l">>, language |-> "Hindi", genre |-> "Drama", year |-> 2016, imdbRating |-> 83, rottenTomatoesRating |-> 88, budget |-> 95, revenue |-> 3050],
  [id |-> "14", title |-> <<"I","n","c","e","p","t","i","o","n">>, language |-> "English", genre |-> "Sci-Fi", year |-> 2010, imdbRating |-> 88, rottenTomatoesRating |-> 87, budget |-> 1600, revenue |-> 8290],
  [id |-> "15", title |-> <<"D","r","i","s","h","y","a","m">>, language |-> "Malayalam", genre |-> "Thriller", year |-> 2013, imdbRating |-> 83, rottenTomatoesRating |-> 90, budget |-> 8, revenue |-> 100],
  [id |-> "16", title |-> <<"I","n","t","e","r","s","t","e","l","l","a","r">>, language |-> "English", genre |-> "Sci-Fi", year |-> 2014, imdbRating |-> 87, rottenTomatoesRating |-> 73, budget |-> 1650, revenue |-> 7010],
  [id |-> "17", title |-> <<"G","a","n","g","s"," ","o","f"," ","W","a","s","s","e","y","p","u","r">>, language |-> "Hindi", genre |-> "Action", year |-> 2012, imdbRating |-> 82, rottenTomatoesRating |-> 95, budget |-> 23, revenue |-> 60],
  [id |-> "18", title |-> <<"M","a","h","a","n","a","t","i">>, language |-> "Telugu", genre |-> "Drama", year |-> 2018, imdbRating |-> 85, rottenTomatoesRating |-> 90, budget |-> 40, revenue |-> 120],
  [id |-> "19", title |-> <<"B","a","n","g","a","l","o","r","e"," ","D","a","y","s">>, language |-> "Malayalam", genre |-> "Romance", year |-> 2014, imdbRating |-> 83, rottenTomatoesRating |-> 100, budget |-> 10, revenue |-> 80],
  [id |-> "20", title |-> <<"S","u","p","e","r"," ","D","e","l","u","x","e">>, language |-> "Tamil", genre |-> "Drama", year |-> 2019, imdbRating |-> 83, rottenTomatoesRating |-> 94, budget |-> 20, revenue |-> 70],
  [id |-> "21", title |-> <<"3"," ","I","d","i","o","t","s">>, language |-> "Hindi", genre |-> "Comedy", year |-> 2009, imdbRating |-> 84, rottenTomatoesRating |-> 100, budget |-> 80, revenue |-> 650],
  [id |-> "22", title |-> <<"T","h","e"," ","D","a","r","k"," ","K","n","i","g","h","t">>, language |-> "English", genre |-> "Action", year |-> 2008, imdbRating |-> 90, rottenTomatoesRating |-> 94, budget |-> 1850, revenue |-> 10050],
  [id |-> "23", title |-> <<"L","a","g","a","a","n">>, language |-> "Hindi", genre |-> "Drama", year |-> 2001, imdbRating |-> 81, rottenTomatoesRating |-> 95, budget |-> 50, revenue |-> 100],
  [id |-> "24", title |-> <<"P","o","k","i","r","i">>, language |-> "Telugu", genre |-> "Action", year |-> 2006, imdbRating |-> 80, rottenTomatoesRating |-> 80, budget |-> 20, revenue |-> 150],
  [id |-> "25", title |-> <<"A","n","n","i","y","a","n">>, language |-> "Tamil", genre |-> "Thriller", year |-> 2005, imdbRating |-> 83, rottenTomatoesRating |-> 85, budget |-> 40, revenue |-> 80],
  [id |-> "26", title |-> <<"A","v","a","t","a","r">>, language |-> "English", genre |-> "Sci-Fi", year |-> 2009, imdbRating |-> 79, rottenTomatoesRating |-> 82, budget |-> 2370, revenue |-> 29230],
  [id |-> "27", title |-> <<"G","l","a","d","i","a","t","o","r">>, language |-> "English", genre |-> "Action", year |-> 2000, imdbRating |-> 85, rottenTomatoesRating |-> 77, budget |-> 1030, revenue |-> 4600],
  [id |-> "28", title |-> <<"G","h","a","j","i","n","i">>, language |-> "Hindi", genre |-> "Action", year |-> 2008, imdbRating |-> 73, rottenTomatoesRating |-> 50, budget |-> 80, revenue |-> 300],
  [id |-> "29", title |-> <<"S","i","v","a","j","i",":"," ","T","h","e"," ","B","o","s","s">>, language |-> "Tamil", genre |-> "Action", year |-> 2007, imdbRating |-> 75, rottenTomatoesRating |-> 80, budget |-> 80, revenue |-> 190],
  [id |-> "30", title |-> <<"A","r","u","n","d","h","a","t","i">>, language |-> "Telugu", genre |-> "Horror", year |-> 2009, imdbRating |-> 73, rottenTomatoesRating |-> 80, budget |-> 20, revenue |-> 100],
  [id |-> "31", title |-> <<"D","i","l","w","a","l","e"," ","D","u","l","h","a","n","i","a"," ","L","e"," ","J","a","y","e","n","g","e">>, language |-> "Hindi", genre |-> "Romance", year |-> 1995, imdbRating |-> 80, rottenTomatoesRating |-> 100, budget |-> 40, revenue |-> 500],
  [id |-> "32", title |-> <<"T","i","t","a","n","i","c">>, language |-> "English", genre |-> "Romance", year |-> 1997, imdbRating |-> 79, rottenTomatoesRating |-> 89, budget |-> 2000, revenue |-> 22010],
  [id |-> "33", title |-> <<"M","a","n","i","c","h","i","t","r","a","t","h","a","z","h","u">>, language |-> "Malayalam", genre |-> "Horror", year |-> 1993, imdbRating |-> 88, rottenTomatoesRating |-> 95, budget |-> 4, revenue |-> 40],
  [id |-> "34", title |-> <<"J","u","r","a","s","s","i","c"," ","P","a","r","k">>, language |-> "English", genre |-> "Adventure", year |-> 1993, imdbRating |-> 82, rottenTomatoesRating |-> 91, budget |-> 630, revenue |-> 10460],
  [id |-> "35", title |-> <<"B","a","a","s","h","a">>, language |-> "Tamil", genre |-> "Action", year |-> 1995, imdbRating |-> 87, rottenTomatoesRating |-> 90, budget |-> 10, revenue |-> 50],
  [id |-> "36", title |-> <<"T","h","e"," ","L","i","o","n"," ","K","i","n","g">>, language |-> "English", genre |-> "Adventure", year |-> 1994, imdbRating |-> 85, rottenTomatoesRating |-> 93, budget |-> 450, revenue |-> 9680],
  [id |-> "37", title |-> <<"F","o","r","r","e","s","t"," ","G","u","m","p">>, language |-> "English", genre |-> "Drama", year |-> 1994, imdbRating |-> 88, rottenTomatoesRating |-> 71, budget |-> 550, revenue |-> 6770],
  [id |-> "38", title |-> <<"R","o","j","a">>, language |-> "Tamil", genre |-> "Romance", year |-> 1992, imdbRating |-> 81, rottenTomatoesRating |-> 90, budget |-> 5, revenue |-> 20],
  [id |-> "39", title |-> <<"H","u","m"," ","A","a","p","k","e"," ","H","a","i","n"," ","K","o","u","n",".",".","!">>, language |-> "Hindi", genre |-> "Romance", year |-> 1994, imdbRating |-> 75, rottenTomatoesRating |-> 80, budget |-> 15, revenue |-> 250],
  [id |-> "40", title |-> <<"P","u","l","p"," ","F","i","c","t","i","o","n">>, language |-> "English", genre |-> "Thriller", year |-> 1994, imdbRating |-> 89, rottenTomatoesRating |-> 92, budget |-> 80, revenue |-> 2130],
  [id |-> "41", title |-> <<"N","a","y","a","k","a","n">>, language |-> "Tamil", genre |-> "Drama", year |-> 1987, imdbRating |-> 87, rottenTomatoesRating |-> 92, budget |-> 10, revenue |-> 100],
  [id |-> "42", title |-> <<"S","h","i","v","a">>, language |-> "Telugu", genre |-> "Action", year |-> 1989, imdbRating |-> 80, rottenTomatoesRating |-> 90, budget |-> 5, revenue |-> 50],
  [id |-> "43", title |-> <<"B","a","c","k"," ","t","o"," ","t","h","e"," ","F","u","t","u","r","e">>, language |-> "English", genre |-> "Sci-Fi", year |-> 1985, imdbRating |-> 85, rottenTomatoesRating |-> 93, budget |-> 190, revenue |-> 3880],
  [id |-> "44", title |-> <<"M","r","."," ","I","n","d","i","a">>, language |-> "Hindi", genre |-> "Sci-Fi", year |-> 1987, imdbRating |-> 78, rottenTomatoesRating |-> 90, budget |-> 12, revenue |-> 50],
  [id |-> "45", title |-> <<"M","o","o","n","d","r","a","m"," ","P","i","r","a","i">>, language |-> "Tamil", genre |-> "Drama", year |-> 1982, imdbRating |-> 84, rottenTomatoesRating |-> 95, budget |-> 5, revenue |-> 20],
  [id |-> "46", title |-> <<"S","a","g","a","r","a"," ","S","a","n","g","a","m","a","m">>, language |-> "Telugu", genre |-> "Drama", year |-> 1983, imdbRating |-> 88, rottenTomatoesRating |-> 90, budget |-> 8, revenue |-> 30],
  [id |-> "47", title |-> <<"T","h","o","o","v","a","n","a","t","h","u","m","b","i","k","a","l">>, language |-> "Malayalam", genre |-> "Romance", year |-> 1987, imdbRating |-> 87, rottenTomatoesRating |-> 90, budget |-> 3, revenue |-> 10],
  [id |-> "48", title |-> <<"E",".","T","."," ","t","h","e"," ","E","x","t","r","a","-","T","e","r","r","e","s","t","r","i","a","l">>, language |-> "English", genre |-> "Sci-Fi", year |-> 1982, imdbRating |-> 79, rottenTomatoesRating |-> 99, budget |-> 105, revenue |-> 7920],
  [id |-> "49", title |-> <<"B","l","a","d","e"," ","R","u","n","n","e","r">>, language |-> "English", genre |-> "Sci-Fi", year |-> 1982, imdbRating |-> 81, rottenTomatoesRating |-> 89, budget |-> 300, revenue |-> 410],
  [id |-> "50", title |-> <<"P","u","s","h","p","a","k","a"," ","V","i","m","a","n","a">>, language |-> "Kannada", genre |-> "Comedy", year |-> 1987, imdbRating |-> 86, rottenTomatoesRating |-> 95, budget |-> 4, revenue |-> 15]
  >>

\* the decade variant's literal list `fallback` is the same 50 records
DecadeFallback == FALLBACK_DATA

\* the list literal returned by the catch block of part_001, the same 50
Part001Fallback == FALLBACK_DATA

\* the 5-record list literal returned by the service variant's catch block
ServiceFallback ==
  <<
  [id |-> "1", title |-> <<"O","p","p","e","n","h","e","i","m","e","r">>, language |-> "English", genre |-> "Drama", year |-> 2023, imdbRating |-> 84, rottenTomatoesRating |-> 93, budget |-> 1000, revenue |-> 9570],
  [id |-> "2", title |-> <<"R","R","R">>, language |-> "Telugu", genre |-> "Action", year |-> 2022, imdbRating |-> 78, rottenTomatoesRating |-> 95, budget |-> 690, revenue |-> 1600],
  [id |-> "3", title |-> <<"K","a","n","t","a","r","a">>, language |-> "Kannada", genre |-> "Thriller", year |-> 2022, imdbRating |-> 82, rottenTomatoesRating |-> 90, budget |-> 20, revenue |-> 500],
  [id |-> "4", title |-> <<"V","i","k","r","a","m">>, language |-> "Tamil", genre |-> "Action", year |-> 2022, imdbRating |-> 83, rottenTomatoesRating |-> 95, budget |-> 150, revenue |-> 600],
  [id |-> "5", title |-> <<"M","a","n","j","u","m","m","e","l"," ","B","o","y","s">>, language |-> "Malayalam", genre |-> "Adventure", year |-> 2024, imdbRating |-> 84, rottenTomatoesRating |-> 95, budget |-> 25, revenue |-> 290]
  >>

\* a fallback list that lost its first record
FallbackOfTail(v) == Tail(FALLBACK_DATA)

FallbackOf(v) ==
  CASE v = "wave" -> FALLBACK_DATA
    [] v = "decade" -> DecadeFallback
    [] v = "part001" -> Part001Fallback
    [] OTHER -> ServiceFallback

(***************************************************************************)
(* The generation source.  A response either rejects (network error) or    *)
(* carries a text.  A text is a sequence of tokens: prose, the brackets    *)
(* "[" and "]", the literal null and object literals (the separating       *)
(* commas are left out).  The objects the source can put in a response     *)
(* are the ones of SourceElems.  The response schema asks for string       *)
(* titles and integer years, so those are the only types modelled; a       *)
(* property may be missing.                                                *)
(***************************************************************************)
Null == [jsnull |-> TRUE]

IsNull(m) == "jsnull" \in DOMAIN m

mA == [id |-> "7", title |-> <<"A">>, year |-> 1990,
       language |-> "English", genre |-> "Action"]
ma == [id |-> "1", title |-> <<"a">>, year |-> 1990,
       language |-> "Hindi", genre |-> "Drama"]
mB == [title |-> <<"B">>, year |-> 1991,
       language |-> "Tamil", genre |-> "Comedy"]
\* a record whose language and genre are outside the schema's enumerations
mRemake == [id |-> "7", title |-> <<" ", "A">>, year |-> 2000,
            language |-> "Spanish", genre |-> "All"]
mEmptyTitle == [id |-> "3", title |-> <<>>, year |-> 1990,
                language |-> "Telugu", genre |-> "Horror"]
mNoTitle == [id |-> "4", year |-> 1991,
             language |-> "Kannada", genre |-> "Romance"]
mNoYear == [id |-> "5", title |-> <<"C">>,
            language |-> "Malayalam", genre |-> "Thriller"]

SourceElems == {mA, ma, mB, mRemake, mEmptyTitle, mNoTitle, mNoYear, Null}

Prose == [t |-> "prose"]
LB == [t |-> "["]
RB == [t |-> "]"]
NullTok == [t |-> "null"]
ObjTok(m) == [t |-> "obj", v |-> m]

\* the text of a JSON array holding the elements es
ArrayText(es) ==
  <<LB>> \o [i \in 1..Len(es) |-> IF IsNull(es[i]) THEN NullTok ELSE ObjTok(es[i])]
         \o <<RB>>

ElemSeqs(n) == UNION {[1..k -> SourceElems] : k \in 0..n}

Texts ==
  {ArrayText(es) : es \in ElemSeqs(MaxRespLen)}
    \cup {<<Prose>> \o ArrayText(es) \o <<Prose>> : es \in ElemSeqs(1)}
    \cup { <<>>, <<Prose>>, <<NullTok>>, <<ObjTok(mA)>>,
           <<LB, ObjTok(mA)>>, <<RB, Prose, LB>>,
           <<LB, ObjTok(mA), RB, Prose, LB, ObjTok(mB), RB>> }

Reject == [kind |-> "reject"]

RespPool ==
  {Reject, [kind |-> "ok"]} \cup {[kind |-> "ok", text |-> t] : t \in Texts}

(***************************************************************************)
(* Batch fetcher: fetchMoviesForPeriod.                                    *)
(***************************************************************************)
\* String.prototype.indexOf / lastIndexOf for one token, 0-based, -1 if absent
indexOf(s, tok) ==
  IF \E i \in 1..Len(s) : s[i] = tok
  THEN (CHOOSE i \in 1..Len(s) : s[i] = tok /\ \A j \in 1..(i - 1) : s[j] # tok) - 1
  ELSE -1

lastIndexOf(s, tok) ==
  IF \E i \in 1..Len(s) : s[i] = tok
  THEN (CHOOSE i \in 1..Len(s) : s[i] = tok /\ \A j \in (i + 1)..Len(s) : s[j] # tok) - 1
  ELSE -1

\* String.prototype.substring(a, b) with 0-based a (inclusive), b (exclusive)
substring(s, a, b) == SubSeq(s, a + 1, b)

\* JSON.parse: a text is well formed when it is one value: null, one object,
\* or a bracketed list of objects and nulls.  Anything else is a SyntaxError.
JSONparse(s) ==
  IF Len(s) = 1 /\ s[1].t = "null" THEN [ok |-> TRUE, kind |-> "null"]
  ELSE IF Len(s) = 1 /\ s[1].t = "obj" THEN [ok |-> TRUE, kind |-> "object"]
  ELSE IF /\ Len(s) >= 2
          /\ s[1].t = "["
          /\ s[Len(s)].t = "]"
          /\ \A i \in 2..(Len(s) - 1) : s[i].t \in {"null", "obj"}
       THEN [ok |-> TRUE, kind |-> "array",
             elems |-> [i \in 1..(Len(s) - 2) |->
                          IF s[i + 1].t = "null" THEN Null ELSE s[i + 1].v]]
       ELSE [ok |-> FALSE]

\* a slice that leaves the two brackets out
cleanJsonInner(rawText) ==
  LET startIdx == indexOf(rawText, LB)
      endIdx == lastIndexOf(rawText, RB)
  IN  IF startIdx # -1 /\ endIdx # -1 /\ endIdx > startIdx
      THEN substring(rawText, startIdx + 1, endIdx)
      ELSE rawText

\* the text handed to JSON.parse
cleanJson(rawText) ==
  LET startIdx == indexOf(rawText, LB)
      endIdx == lastIndexOf(rawText, RB)
  IN  IF startIdx # -1 /\ endIdx # -1 /\ endIdx > startIdx
      THEN substring(rawText, startIdx, endIdx + 1)
      ELSE rawText

\* a filter that also accepts the year before the period
InPeriodFromBefore(m, s, e) ==
  "year" \in DOMAIN m /\ m.year >= s - 1 /\ m.year <= e

\* a filter that lets a record without a year through
InPeriodOrNoYear(m, s, e) ==
  "year" \in DOMAIN m => (m.year >= s /\ m.year <= e)

\* m.year >= startYear && m.year <= endYear (false when year is undefined)
InPeriod(m, s, e) == "year" \in DOMAIN m /\ m.year >= s /\ m.year <= e

\* fetchMoviesForPeriod without its catch block: a failure rejects the promise
fetchMoviesForPeriodRethrow(resp, s, e) ==
  IF resp.kind = "reject"
  THEN [settled |-> "rejected", value |-> <<>>, caught |-> FALSE]
  ELSE LET rawText == IF "text" \in DOMAIN resp /\ resp.text # <<>>
                      THEN resp.text ELSE <<LB, RB>>
           data == JSONparse(cleanJson(rawText))
           keep(m) == InPeriod(m, s, e)
       IN  IF ~data.ok \/ data.kind # "array"
              \/ \E i \in 1..Len(data.elems) : IsNull(data.elems[i])
           THEN [settled |-> "rejected", value |-> <<>>, caught |-> FALSE]
           ELSE [settled |-> "fulfilled", value |-> SelectSeq(data.elems, keep),
                 caught |-> FALSE]

\* fetchMoviesForPeriod with a filter that guards against null elements
\* (m => m && ...) and so keeps the other records of the response
fetchMoviesForPeriodSkipNull(resp, s, e) ==
  IF resp.kind = "reject"
  THEN [settled |-> "fulfilled", value |-> <<>>, caught |-> TRUE]
  ELSE LET rawText == IF "text" \in DOMAIN resp /\ resp.text # <<>>
                      THEN resp.text ELSE <<LB, RB>>
           data == JSONparse(cleanJson(rawText))
           keep(m) == ~IsNull(m) /\ InPeriod(m, s, e)
       IN  IF ~data.ok \/ data.kind # "array"
           THEN [settled |-> "fulfilled", value |-> <<>>, caught |-> TRUE]
           ELSE [settled |-> "fulfilled", value |-> SelectSeq(data.elems, keep),
                 caught |-> FALSE]

\* The promise of fetchMoviesForPeriod for one response of the source:
\* settled is how the promise settles, value what it resolves to, caught
\* whether the catch block ran (console.warn).
fetchMoviesForPeriod(resp, s, e) ==
  IF resp.kind = "reject"
  THEN [settled |-> "fulfilled", value |-> <<>>, caught |-> TRUE]
  ELSE LET rawText == IF "text" \in DOMAIN resp /\ resp.text # <<>>
                      THEN resp.text ELSE <<LB, RB>>
           data == JSONparse(cleanJson(rawText))
           keep(m) == InPeriod(m, s, e)
       IN  IF ~data.ok
           THEN [settled |-> "fulfilled", value |-> <<>>, caught |-> TRUE]
           ELSE IF data.kind # "array"
           THEN [settled |-> "fulfilled", value |-> <<>>, caught |-> TRUE]
           ELSE IF \E i \in 1..Len(data.elems) : IsNull(data.elems[i])
           THEN [settled |-> "fulfilled", value |-> <<>>, caught |-> TRUE]
           ELSE [settled |-> "fulfilled", value |-> SelectSeq(data.elems, keep),
                 caught |-> FALSE]

(***************************************************************************)
(* Merge, deduplication and re-indexing of generateMovieDataset.           *)
(***************************************************************************)
RECURSIVE flat(_)
flat(batches) ==
  IF batches = <<>> THEN <<>> ELSE Head(batches) \o flat(Tail(batches))

Undefined == <<"u", "n", "d", "e", "f", "i", "n", "e", "d">>

\* the title-only key in every variant
dedupKeyTitleOnly(v, movie) == trim(toLowerCase(movie.title))

\* the Map key: title.toLowerCase().trim(), in the wave variant followed
\* by "|" and the year
dedupKey(v, movie) ==
  IF v = "wave"
  THEN trim(toLowerCase(movie.title)) \o <<"|">> \o
         (IF "year" \in DOMAIN movie THEN NumToChars(movie.year) ELSE Undefined)
  ELSE trim(toLowerCase(movie.title))

\* a test that lets the empty title through
TitledOrEmpty(movie) == ~IsNull(movie) /\ "title" \in DOMAIN movie

\* movie && movie.title
Titled(movie) ==
  ~IsNull(movie) /\ "title" \in DOMAIN movie /\ movie.title # <<>>

\* a Map lookup that never finds the key
MapHasNever(map, key) == FALSE

\* a Map lookup that only looks at the oldest entry
MapHasFirst(map, key) == map # <<>> /\ map[1].key = key

\* uniqueMap.has(key)
MapHas(map, key) == \E i \in 1..Len(map) : map[i].key = key

\* forEach with an unconditional uniqueMap.set: the last record of a key
\* replaces the value of the entry
RECURSIVE forEachMovieLastWins(_, _, _)
forEachMovieLastWins(v, raw, map) ==
  IF raw = <<>> THEN map
  ELSE LET movie == Head(raw)
           key == dedupKey(v, movie)
           next == IF ~Titled(movie) THEN map
                   ELSE IF \E i \in 1..Len(map) : map[i].key = key
                   THEN [i \in 1..Len(map) |->
                           IF map[i].key = key THEN [key |-> key, value |-> movie]
                                               ELSE map[i]]
                   ELSE Append(map, [key |-> key, value |-> movie])
       IN  forEachMovieLastWins(v, Tail(raw), next)

\* rawMovies.forEach(...): the Map as the sequence of its entries in
\* insertion order
RECURSIVE forEachMovie(_, _, _)
forEachMovie(v, raw, map) ==
  IF raw = <<>> THEN map
  ELSE LET movie == Head(raw)
           next == IF Titled(movie) /\ ~MapHas(map, dedupKey(v, movie))
                   THEN Append(map, [key |-> dedupKey(v, movie), value |-> movie])
                   ELSE map
       IN  forEachMovie(v, Tail(raw), next)

\* re-indexing with the spread last ({id: ..., ...movie}): the id of the
\* source wins when the record has one
reindexKeepId(map) ==
  [i \in 1..Len(map) |-> map[i].value @@ ("id" :> ToString(i))]

\* Array.from(uniqueMap.values()).map((movie, index) => ({...movie, id: ...}))
reindex(map) ==
  [i \in 1..Len(map) |-> ("id" :> ToString(i)) @@ map[i].value]

\* finalMovies of generateMovieDataset for the merged list raw
finalMovies(v, raw) == reindex(forEachMovie(v, raw, <<>>))

(***************************************************************************)
(* Progress messages.                                                      *)
(***************************************************************************)
MsgNoKey == "API Key missing. Loading offline data..."
MsgInitWave == "Initializing massive data stream..."
MsgFinalizing == "Finalizing dataset..."
MsgFailed == "Connection failed. Loading backup dataset..."
MsgMerging == "Merging, cleaning, and deduplicating data..."

MsgInitService(n) ==
  "Initializing massive parallel data generation (" \o ToString(n) \o " streams)..."

\* the message sent before the wave that starts at 0-based period index i
MsgFetching(i, n) ==
  "Fetching movies... (" \o ToString(Min(i + BATCH_SIZE, n)) \o " / "
    \o ToString(n) \o " sectors)"

(***************************************************************************)
(* State of one run of generateMovieDataset.                               *)
(***************************************************************************)
VARIABLES
  variant,      \* which source variant of generateMovieDataset runs
  apiKey,       \* TRUE when the credential environment variable is set
  onProgress,   \* "present" when the caller passed a progress callback
  phase,        \* IDLE, PARTITIONING, FETCHING, MERGING, OFFLINE,
                \* SUCCESS, FALLBACK, or REJECTED (the promise rejected)
  periods,      \* the period list
  issued,       \* number of generation requests issued so far
  outstanding,  \* indexes of the periods whose request has not settled
  results,      \* per period, what its fetchMoviesForPeriod resolved to
  allBatches,   \* wave variant: batch results pushed so far
  rawMovies,    \* the merged list
  uniqueMap,    \* the dedup Map, as its entries in insertion order
  returned,     \* the list the promise resolved to
  progress,     \* the messages the progress callback was called with
  cbThrew,      \* TRUE once a call of the progress callback has thrown
  anyFailed,    \* TRUE once a batch ended in its catch block
  overtaken,    \* TRUE once a response arrived before that of an earlier
                \* request
  app,          \* the state of App: rawData, loading, loadingMessage, error
  inFlight,     \* number of generateMovieDataset promises not yet settled
  fetches,      \* number of calls of fetchData so far
  filters,      \* the FilterState of App
  toggles,      \* number of checkbox toggles handled so far
  input,        \* unit specifications: the arguments of the function applied;
                \* filter bar: the last event handled
  output        \* unit specifications: what the function returned

vars == <<variant, apiKey, onProgress, phase, periods, issued, outstanding,
          results, allBatches, rawMovies, uniqueMap, returned, progress,
          cbThrew, anyFailed, overtaken, app, inFlight, fetches, filters,
          toggles, input, output>>

\* only the service and the wave variant take the onProgress parameter
TakesCallback(v) == v \in {"service", "wave"}

NoInput == [op |-> "none"]
NoOutput == [done |-> FALSE]

(***************************************************************************)
(* The filter state of App and the checkbox handlers of FilterBar.  The    *)
(* selections are arrays: sequences in the order the code builds them.     *)
(***************************************************************************)
\* useState<FilterState>(() => ({...}))
InitialFilters ==
  [selectedGenres |-> SelectSeq(GenreValues, LAMBDA g : g # "All"),
   selectedLanguages |-> LanguageValues,
   yearRange |-> <<1980, 2025>>,
   ratingSource |-> "imdb",
   showTopRatedOnly |-> FALSE]

\* Array.prototype.includes
includes(arr, x) == \E i \in 1..Len(arr) : arr[i] = x

\* a handler without the test of current.length === 1
handleGenreToggleAlways(prev, genre) ==
  IF includes(prev.selectedGenres, genre)
  THEN [prev EXCEPT !.selectedGenres = SelectSeq(@, LAMBDA g : g # genre)]
  ELSE [prev EXCEPT !.selectedGenres = Append(@, genre)]

\* the updater handleGenreToggle passes to setFilters
handleGenreToggle(prev, genre) ==
  LET current == prev.selectedGenres
  IN  IF includes(current, genre)
      THEN IF Len(current) = 1 THEN prev
           ELSE [prev EXCEPT
                   !.selectedGenres = SelectSeq(current, LAMBDA g : g # genre)]
      ELSE [prev EXCEPT !.selectedGenres = Append(current, genre)]

\* the updater handleLanguageToggle passes to setFilters
handleLanguageToggle(prev, lang) ==
  LET current == prev.selectedLanguages
  IN  IF includes(current, lang)
      THEN IF Len(current) = 1 THEN prev
           ELSE [prev EXCEPT
                   !.selectedLanguages = SelectSeq(current, LAMBDA l : l # lang)]
      ELSE [prev EXCEPT !.selectedLanguages = Append(current, lang)]

(***************************************************************************)
(* The data state of App and fetchData.                                    *)
(***************************************************************************)
MsgEngine == "Initializing AI Data Engine..."
MsgConnecting == "Connecting to Gemini AI..."
MsgLoadFailed == "Failed to load movie data. Please try again."

\* the useState initial values of rawData, loading, loadingMessage, error
InitialApp ==
  [rawData |-> <<>>, loading |-> TRUE, loadingMessage |-> MsgEngine,
   error |-> Null]

\* fetchData up to its await: setLoading(true), setError(null),
\* setLoadingMessage("Connecting to Gemini AI...")
fetchDataBegin(st) ==
  [st EXCEPT !.loading = TRUE, !.error = Null, !.loadingMessage = MsgConnecting]

\* the finally block: setLoading(false), setLoadingMessage("")
fetchDataFinally(st) == [st EXCEPT !.loading = FALSE, !.loadingMessage = ""]

\* a continuation that adds the new records to the old list
fetchDataResolvedAppend(st, data) ==
  fetchDataFinally([st EXCEPT !.rawData = @ \o data])

\* fetchData after the await resolved to data: setRawData(data), finally
fetchDataResolved(st, data) == fetchDataFinally([st EXCEPT !.rawData = data])

\* fetchData after the await threw: setError(...), finally
fetchDataRejected(st) ==
  fetchDataFinally([st EXCEPT !.error = [message |-> MsgLoadFailed]])

\* a button that stays enabled
RefreshDisabledNever == FALSE

\* the 'Generate New Dataset' button: disabled={isLoading}
RefreshDisabled == app.loading

\* the state before generateMovieDataset is called
Idle ==
  /\ phase = "IDLE"
  /\ periods = <<>>
  /\ issued = 0
  /\ outstanding = {}
  /\ results = <<>>
  /\ allBatches = <<>>
  /\ rawMovies = <<>>
  /\ uniqueMap = <<>>
  /\ returned = <<>>
  /\ progress = <<>>
  /\ cbThrew = FALSE
  /\ anyFailed = FALSE
  /\ overtaken = FALSE
  /\ app = InitialApp
  /\ inFlight = 0
  /\ fetches = 0
  /\ toggles = 0

Init ==
  /\ variant \in Variants
  /\ apiKey \in BOOLEAN
  /\ onProgress \in (IF TakesCallback(variant) THEN {"absent", "present"}
                                                ELSE {"absent"})
  /\ Idle
  /\ filters = InitialFilters
  /\ input = NoInput
  /\ output = NoOutput

(***************************************************************************)
(* Calls of the progress callback inside one stretch of code.  The code    *)
(* calls onProgress with the messages msgs in order; k = 0 is the case     *)
(* where every call returns, k > 0 the case where the k-th call throws.    *)
(***************************************************************************)
ThrowPoints(msgs) == IF onProgress = "present" THEN 0..Len(msgs) ELSE {0}

Delivered(log, msgs, k) ==
  IF onProgress = "present"
  THEN log \o SubSeq(msgs, 1, IF k = 0 THEN Len(msgs) ELSE k)
  ELSE log

\* whether the callback call of the wave variant's catch block can throw
CatchThrows ==
  IF variant = "wave" /\ onProgress = "present" THEN BOOLEAN ELSE {FALSE}

\* The catch block of generateMovieDataset, entered with the progress log
\* `log`; threw says whether a callback call threw on the way in, thr
\* whether the callback call of the catch block itself throws.
Catch(log, threw, thr) ==
  /\ progress' = (IF variant = "wave" THEN Delivered(log, <<MsgFailed>>, 0) ELSE log)
  /\ cbThrew' = (cbThrew \/ threw \/ thr)
  /\ phase' = (IF thr THEN "REJECTED" ELSE "FALLBACK")
  /\ returned' = (IF thr THEN <<>> ELSE FallbackOf(variant))

(***************************************************************************)
(* generateMovieDataset up to its first await.                             *)
(***************************************************************************)
\* a run without the credential check
MissingKeyNever == FALSE

\* if (!process.env.API_KEY): only the wave variant has this check
MissingKey == variant = "wave" /\ ~apiKey

\* the call: the wave variant's credential check, else the period list
Call ==
  /\ phase = "IDLE"
  /\ IF MissingKey
     THEN /\ \E k \in ThrowPoints(<<MsgNoKey>>) :
               /\ progress' = Delivered(progress, <<MsgNoKey>>, k)
               /\ cbThrew' = (k # 0)
               /\ phase' = (IF k # 0 THEN "REJECTED" ELSE "OFFLINE")
          /\ UNCHANGED <<periods, results>>
     ELSE /\ periods' = PeriodsOf(variant)
          /\ results' = [i \in 1..Len(PeriodsOf(variant)) |-> <<>>]
          /\ phase' = "PARTITIONING"
          /\ UNCHANGED <<progress, cbThrew>>
  /\ UNCHANGED <<overtaken, app, inFlight, fetches, filters, toggles, input, output, variant, apiKey, onProgress, issued, outstanding, allBatches,
                 rawMovies, uniqueMap, returned, anyFailed>>

\* the 1 second timer of the wave variant's offline path fires
Timeout ==
  /\ phase = "OFFLINE"
  /\ phase' = "FALLBACK"
  /\ returned' = FALLBACK_DATA
  /\ UNCHANGED <<overtaken, app, inFlight, fetches, filters, toggles, input, output, variant, apiKey, onProgress, periods, issued, outstanding,
                 results, allBatches, rawMovies, uniqueMap, progress, cbThrew,
                 anyFailed>>

\* waves only for a caller that watches the progress
WaveEndUnwatched(from) ==
  IF variant = "wave" /\ onProgress = "present"
  THEN Min(from + BATCH_SIZE, Len(periods)) ELSE Len(periods)

\* index of the last period of the wave that starts after `from` requests
WaveEnd(from) ==
  IF variant = "wave" THEN Min(from + BATCH_SIZE, Len(periods)) ELSE Len(periods)

\* the wave variant announcing its first wave before its initial message
StartMsgsSwapped ==
  CASE variant = "service" -> <<MsgInitService(Len(periods))>>
    [] variant = "wave" -> <<MsgFetching(0, Len(periods)), MsgInitWave>>
    [] OTHER -> <<>>

\* the progress calls between the entry of the try block and the first
\* request
StartMsgs ==
  CASE variant = "service" -> <<MsgInitService(Len(periods))>>
    [] variant = "wave" -> <<MsgInitWave, MsgFetching(0, Len(periods))>>
    [] OTHER -> <<>>

\* entry of the try block: first progress calls, then the requests of the
\* first wave (all requests in the variants without waves)
BeginFetch ==
  /\ phase = "PARTITIONING"
  /\ \E k \in ThrowPoints(StartMsgs), thr \in CatchThrows :
       IF k # 0
       THEN /\ Catch(Delivered(progress, StartMsgs, k), TRUE, thr)
            /\ UNCHANGED <<issued, outstanding>>
       ELSE /\ thr = FALSE
            /\ progress' = Delivered(progress, StartMsgs, 0)
            /\ issued' = WaveEnd(0)
            /\ outstanding' = 1..WaveEnd(0)
            /\ phase' = "FETCHING"
            /\ UNCHANGED <<cbThrew, returned>>
  /\ UNCHANGED <<overtaken, app, inFlight, fetches, filters, toggles, input, output, variant, apiKey, onProgress, periods, results, allBatches,
                 rawMovies, uniqueMap, anyFailed>>

(***************************************************************************)
(* The concurrent phase.                                                   *)
(***************************************************************************)
\* what the generation source can answer: without a credential every
\* request is refused
SourceResponses(key) == IF key THEN RespPool ELSE {Reject}

\* for each variant and period, the promises fetchMoviesForPeriod can
\* produce over all the responses of the source
FetchOutcomes ==
  [v \in Variants |-> [key \in BOOLEAN |->
     [i \in 1..Len(PeriodsOf(v)) |->
        {fetchMoviesForPeriod(r, PeriodsOf(v)[i][1], PeriodsOf(v)[i][2]) :
           r \in SourceResponses(key)}]]]

\* results in the order in which the responses arrive
ArrivalSlot(i) == issued - Cardinality(outstanding) + 1

\* Promise.all resolves to an array in the order of its input promises:
\* the batch of period i is element i, whenever it settles
ResultSlot(i) == i

\* the request of period i gets its response and its fetchMoviesForPeriod
\* promise settles; a response overtakes at most MaxOvertaken earlier ones
Settle(i) ==
  /\ phase = "FETCHING"
  /\ i \in outstanding
  /\ Cardinality({j \in outstanding : j < i}) <= MaxOvertaken
  /\ \E out \in FetchOutcomes[variant][apiKey][i], thr \in CatchThrows :
       IF out.settled = "fulfilled"
       THEN /\ thr = FALSE
            /\ results' = [results EXCEPT ![ResultSlot(i)] = out.value]
            /\ anyFailed' = (anyFailed \/ out.caught)
            /\ UNCHANGED <<phase, returned, progress, cbThrew>>
       ELSE \* Promise.all rejects and the await throws into the catch block
            /\ Catch(progress, FALSE, thr)
            /\ UNCHANGED <<results, anyFailed>>
  /\ outstanding' = outstanding \ {i}
  /\ overtaken' = (overtaken \/ \E j \in outstanding : j < i)
  /\ UNCHANGED <<app, inFlight, fetches, filters, toggles, input, output,
                 variant, apiKey, onProgress, periods, issued, allBatches,
                 rawMovies, uniqueMap>>

\* an await that ends as soon as one batch has ended in its catch block
PromiseAllOrFailure == outstanding = {} \/ anyFailed

\* an await that ends with the first request that settles
PromiseAny == Cardinality(outstanding) < issued

\* await Promise.all(...): fulfilled once no request it waits for is
\* outstanding (fetchMoviesForPeriod promises; a rejected one is Settle's
\* catch case)
PromiseAllResolved == outstanding = {}

\* the code after `await Promise.all(...)` in the variants without waves,
\* up to the merged list
ResumeAll ==
  /\ phase = "FETCHING"
  /\ variant # "wave"
  /\ PromiseAllResolved
  /\ LET msgs == IF variant = "service" THEN <<MsgMerging>> ELSE <<>>
     IN  \E k \in ThrowPoints(msgs) :
           IF k # 0
           THEN /\ Catch(Delivered(progress, msgs, k), TRUE, FALSE)
                /\ UNCHANGED rawMovies
           ELSE /\ progress' = Delivered(progress, msgs, 0)
                /\ rawMovies' = flat(results)
                /\ phase' = "MERGING"
                /\ UNCHANGED <<cbThrew, returned>>
  /\ UNCHANGED <<overtaken, app, inFlight, fetches, filters, toggles, input, output, variant, apiKey, onProgress, periods, issued, outstanding,
                 results, allBatches, uniqueMap, anyFailed>>

\* the code after `await Promise.all(batchPromises)` in the wave variant:
\* push the wave's results, then the next wave or the merged list
ResumeWave ==
  /\ phase = "FETCHING"
  /\ variant = "wave"
  /\ PromiseAllResolved
  /\ allBatches' = allBatches \o SubSeq(results, Len(allBatches) + 1, issued)
  /\ LET more == issued < Len(periods)
         msgs == IF more THEN <<MsgFetching(issued, Len(periods))>>
                         ELSE <<MsgFinalizing>>
     IN  \E k \in ThrowPoints(msgs), thr \in CatchThrows :
           IF k # 0
           THEN /\ Catch(Delivered(progress, msgs, k), TRUE, thr)
                /\ UNCHANGED <<issued, outstanding, rawMovies>>
           ELSE /\ thr = FALSE
                /\ progress' = Delivered(progress, msgs, 0)
                /\ IF more
                   THEN /\ issued' = WaveEnd(issued)
                        /\ outstanding' = (issued + 1)..WaveEnd(issued)
                        /\ UNCHANGED <<phase, rawMovies>>
                   ELSE /\ rawMovies' = flat(allBatches')
                        /\ phase' = "MERGING"
                        /\ UNCHANGED <<issued, outstanding>>
                /\ UNCHANGED <<cbThrew, returned>>
  /\ UNCHANGED <<overtaken, app, inFlight, fetches, filters, toggles, input, output, variant, apiKey, onProgress, periods, results, uniqueMap,
                 anyFailed>>

(***************************************************************************)
(* Deduplication, re-indexing and the result of the run.                   *)
(***************************************************************************)
\* a run without the "no data" error
NoDataNever(v, raw) == FALSE

\* whether the run throws its "no data" error for the merged list raw:
\* the wave variant tests the merged list, the others the final list
NoData(v, raw) ==
  IF v = "wave" THEN Len(raw) = 0 ELSE Len(finalMovies(v, raw)) = 0

Finalize ==
  /\ phase = "MERGING"
  /\ \E thr \in CatchThrows :
       IF NoData(variant, rawMovies)
       THEN /\ Catch(progress, FALSE, thr)
            /\ uniqueMap' = (IF variant = "wave" THEN uniqueMap
                             ELSE forEachMovie(variant, rawMovies, <<>>))
       ELSE /\ thr = FALSE
            /\ uniqueMap' = forEachMovie(variant, rawMovies, <<>>)
            /\ returned' = finalMovies(variant, rawMovies)
            /\ phase' = "SUCCESS"
            /\ UNCHANGED <<progress, cbThrew>>
  /\ UNCHANGED <<overtaken, app, inFlight, fetches, filters, toggles, input, output, variant, apiKey, onProgress, periods, issued, outstanding,
                 results, allBatches, rawMovies, anyFailed>>

Next ==
  \/ Call
  \/ Timeout
  \/ BeginFetch
  \/ \E i \in 1..Len(periods) : Settle(i)
  \/ ResumeAll
  \/ ResumeWave
  \/ Finalize

Spec == Init /\ [][Next]_vars

\* The run under fairness: the code of generateMovieDataset runs on when it
\* can (the call, the code after each await, the 1 second timer), and every
\* request that was issued gets its response.
FairSpec == Spec /\ WF_vars(Next)

(***************************************************************************)
(* Unit specifications: one function applied to inputs drawn from bounded  *)
(* sets.  SpecFetch applies fetchMoviesForPeriod to one response of the    *)
(* source for one period of the variant; SpecMerge applies the merge,      *)
(* deduplication and re-indexing step to mocked batch results.             *)
(***************************************************************************)
InitFetch ==
  /\ variant \in Variants
  /\ apiKey = TRUE
  /\ onProgress = "absent"
  /\ Idle
  /\ filters = InitialFilters
  /\ \E r \in RespPool, i \in 1..Len(PeriodsOf(variant)) :
       input = [op |-> "fetch", resp |-> r,
                startYear |-> PeriodsOf(variant)[i][1],
                endYear |-> PeriodsOf(variant)[i][2]]
  /\ output = NoOutput

FetchApply ==
  /\ input.op = "fetch"
  /\ ~output.done
  /\ output' = [done |-> TRUE,
                promise |-> fetchMoviesForPeriod(input.resp, input.startYear,
                                                 input.endYear)]
  /\ UNCHANGED <<overtaken, app, inFlight, fetches, filters, toggles, input, variant, apiKey, onProgress, phase, periods, issued,
                 outstanding, results, allBatches, rawMovies, uniqueMap,
                 returned, progress, cbThrew, anyFailed>>

NextFetch == FetchApply

SpecFetch == InitFetch /\ [][NextFetch]_vars

\* the records fetchMoviesForPeriod can hand to the merge step, and the
\* null that the merge step tests for (movie && movie.title)
MergePool == {m \in SourceElems : IsNull(m) \/ "year" \in DOMAIN m}

BatchPool == UNION {[1..k -> MergePool] : k \in 0..MaxRespLen}

InitMerge ==
  /\ variant \in Variants
  /\ apiKey = TRUE
  /\ onProgress = "absent"
  /\ Idle
  /\ filters = InitialFilters
  /\ \E b \in [1..MaxBatches -> BatchPool] : input = [op |-> "merge", batches |-> b]
  /\ output = NoOutput

MergeApply ==
  /\ input.op = "merge"
  /\ ~output.done
  /\ output' = [done |-> TRUE, final |-> finalMovies(variant, flat(input.batches))]
  /\ UNCHANGED <<overtaken, app, inFlight, fetches, filters, toggles, input, variant, apiKey, onProgress, phase, periods, issued,
                 outstanding, results, allBatches, rawMovies, uniqueMap,
                 returned, progress, cbThrew, anyFailed>>

NextMerge == MergeApply

SpecMerge == InitMerge /\ [][NextMerge]_vars

\* the arguments the stepping loop is applied to
LoopInputs ==
  {[op |-> "loop", startYear |-> a, endYear |-> b, step |-> w] :
     a \in startYear..(startYear + MaxSpan),
     b \in startYear..(startYear + MaxSpan),
     w \in 1..MaxStep}

InitPartition ==
  /\ variant \in Variants
  /\ apiKey = TRUE
  /\ onProgress = "absent"
  /\ Idle
  /\ filters = InitialFilters
  /\ \/ input = [op |-> "periods"]
     \/ /\ variant \in {"service", "part001"}
        /\ input \in {i \in LoopInputs : i.startYear <= i.endYear}
  /\ output = NoOutput

\* the period list of the variant
PeriodsApply ==
  /\ input.op = "periods"
  /\ ~output.done
  /\ output' = [done |-> TRUE, periods |-> PeriodsOf(variant)]
  /\ UNCHANGED <<overtaken, app, inFlight, fetches, filters, toggles, input, variant, apiKey, onProgress, phase,
                 periods, issued, outstanding, results, allBatches, rawMovies,
                 uniqueMap, returned, progress, cbThrew, anyFailed>>

\* the stepping loop on other arguments
LoopApply ==
  /\ input.op = "loop"
  /\ ~output.done
  /\ output' = [done |-> TRUE,
                periods |-> StepPeriods(input.startYear, input.endYear,
                                        input.step)]
  /\ UNCHANGED <<overtaken, app, inFlight, fetches, filters, toggles, input, variant, apiKey, onProgress, phase,
                 periods, issued, outstanding, results, allBatches, rawMovies,
                 uniqueMap, returned, progress, cbThrew, anyFailed>>

NextPartition == PeriodsApply \/ LoopApply

SpecPartition == InitPartition /\ [][NextPartition]_vars

(***************************************************************************)
(* The filter bar: checkbox toggles on the initial filters of App.  The    *)
(* genre checkboxes are Object.values(GenreType) without 'All', the        *)
(* language checkboxes Object.values(LanguageType).                        *)
(***************************************************************************)
\* the filters after the first k genre checkboxes and the first j language
\* checkboxes have been cleared, one by one, from the initial filters
ClearedFirst(k, j) ==
  [InitialFilters EXCEPT
     !.selectedGenres = SubSeq(@, k + 1, Len(@)),
     !.selectedLanguages = SubSeq(@, j + 1, Len(@))]

InitFilter ==
  /\ variant = "service"
  /\ apiKey = TRUE
  /\ onProgress = "present"
  /\ Idle
  /\ \E k \in 0..(Len(InitialFilters.selectedGenres) - 1),
        j \in 0..(Len(InitialFilters.selectedLanguages) - 1) :
       filters = ClearedFirst(k, j)
  /\ input = NoInput
  /\ output = NoOutput

GenreToggle ==
  /\ toggles < MaxToggles
  /\ \E genre \in GenreType \ {"All"} :
       /\ filters' = handleGenreToggle(filters, genre)
       /\ input' = [op |-> "handleGenreToggle", item |-> genre]
  /\ toggles' = toggles + 1
  /\ UNCHANGED <<overtaken, app, inFlight, fetches, output, variant, apiKey, onProgress, phase, periods, issued,
                 outstanding, results, allBatches, rawMovies, uniqueMap,
                 returned, progress, cbThrew, anyFailed>>

LanguageToggle ==
  /\ toggles < MaxToggles
  /\ \E lang \in LanguageType :
       /\ filters' = handleLanguageToggle(filters, lang)
       /\ input' = [op |-> "handleLanguageToggle", item |-> lang]
  /\ toggles' = toggles + 1
  /\ UNCHANGED <<overtaken, app, inFlight, fetches, output, variant, apiKey, onProgress, phase, periods, issued,
                 outstanding, results, allBatches, rawMovies, uniqueMap,
                 returned, progress, cbThrew, anyFailed>>

NextFilter == GenreToggle \/ LanguageToggle

SpecFilter == InitFilter /\ [][NextFilter]_vars

(***************************************************************************)
(* App: fetchData around the promise of generateMovieDataset.  The promise *)
(* is drawn from what generateMovieDataset can settle to: a list (a        *)
(* fallback list, a generated list, the empty list of the wave variant) or *)
(* a rejection.  A settlement and the code of fetchData after its await    *)
(* are one step.                                                           *)
(***************************************************************************)
ResultPool ==
  {ServiceFallback, FALLBACK_DATA, <<>>,
   finalMovies("service", <<mA>>), finalMovies("service", <<mA, mB>>)}

InitApp ==
  /\ variant = "service"
  /\ apiKey = TRUE
  /\ onProgress = "present"
  /\ Idle
  /\ filters = InitialFilters
  /\ input = NoInput
  /\ output = NoOutput

\* useEffect(() => { fetchData(); }, [fetchData]): once, after the first
\* render
Mount ==
  /\ fetches = 0
  /\ app' = fetchDataBegin(app)
  /\ inFlight' = inFlight + 1
  /\ fetches' = 1
  /\ UNCHANGED <<overtaken, filters, toggles, input, output, variant, apiKey,
                 onProgress, phase, periods, issued, outstanding, results,
                 allBatches, rawMovies, uniqueMap, returned, progress, cbThrew,
                 anyFailed>>

\* a click on the 'Generate New Dataset' button: onClick={onRefreshData}
ClickRefresh ==
  /\ fetches > 0
  /\ fetches < MaxFetches
  /\ ~RefreshDisabled
  /\ app' = fetchDataBegin(app)
  /\ inFlight' = inFlight + 1
  /\ fetches' = fetches + 1
  /\ UNCHANGED <<overtaken, filters, toggles, input, output, variant, apiKey,
                 onProgress, phase, periods, issued, outstanding, results,
                 allBatches, rawMovies, uniqueMap, returned, progress, cbThrew,
                 anyFailed>>

\* the progress callback of App: (msg) => { setLoadingMessage(msg); }
AppProgress ==
  /\ inFlight > 0
  /\ \E msg \in {MsgInitService(Len(PeriodsOf(variant))), MsgMerging} :
       /\ app.loadingMessage # msg
       /\ app' = [app EXCEPT !.loadingMessage = msg]
  /\ UNCHANGED <<overtaken, inFlight, fetches, filters, toggles, input, output,
                 variant, apiKey, onProgress, phase, periods, issued,
                 outstanding, results, allBatches, rawMovies, uniqueMap,
                 returned, progress, cbThrew, anyFailed>>

\* the promise resolves to a list and fetchData runs on
RunResolves ==
  /\ inFlight > 0
  /\ \E data \in ResultPool :
       /\ app' = fetchDataResolved(app, data)
       /\ output' = [done |-> TRUE,
                     promise |-> [settled |-> "fulfilled", value |-> data]]
  /\ inFlight' = inFlight - 1
  /\ UNCHANGED <<overtaken, fetches, filters, toggles, input, variant, apiKey,
                 onProgress, phase, periods, issued, outstanding, results,
                 allBatches, rawMovies, uniqueMap, returned, progress, cbThrew,
                 anyFailed>>

\* the promise rejects and fetchData runs its catch block
RunRejects ==
  /\ inFlight > 0
  /\ app' = fetchDataRejected(app)
  /\ output' = [done |-> TRUE, promise |-> [settled |-> "rejected"]]
  /\ inFlight' = inFlight - 1
  /\ UNCHANGED <<overtaken, fetches, filters, toggles, input, variant, apiKey,
                 onProgress, phase, periods, issued, outstanding, results,
                 allBatches, rawMovies, uniqueMap, returned, progress, cbThrew,
                 anyFailed>>

NextApp == Mount \/ ClickRefresh \/ AppProgress \/ RunResolves \/ RunRejects

SpecApp == InitApp /\ [][NextApp]_vars

(***************************************************************************)
(* Properties.                                                             *)
(***************************************************************************)
\* the promise of generateMovieDataset has settled
Done == phase \in {"SUCCESS", "FALLBACK", "REJECTED"}

\* the promise of generateMovieDataset resolved to a list
Resolved == phase \in {"SUCCESS", "FALLBACK"}

\* the dedup key as the specification words it: the lowercased, trimmed
\* title, in the wave variant together with the year
SpecKey(v, m) ==
  IF v = "wave" THEN <<trim(toLowerCase(m.title)), m.year>>
                ELSE <<trim(toLowerCase(m.title))>>

\* every request of the run has been issued and has settled
AllSettled ==
  periods # <<>> /\ issued = Len(periods) /\ outstanding = {}

\* C1: whatever the generation source and the progress callback do (the
\* callback may throw), the promise of generateMovieDataset never rejects,
\* and a run in which an exception was raised after partitioning ends in
\* FALLBACK.
C1_NeverRejects ==
  /\ phase # "REJECTED"
  /\ (Done /\ cbThrew /\ periods # <<>>) => phase = "FALLBACK"

\* C2: when every batch of a run resolved to the empty list, the list the
\* run returns is the variant's fallback dataset, record for record.
C2_AllEmptyGivesFallback ==
  (Resolved /\ AllSettled /\ \A i \in 1..Len(results) : results[i] = <<>>)
    => (phase = "FALLBACK" /\ returned = FallbackOf(variant))

C2_Witness ==
  /\ phase = "FALLBACK"
  /\ AllSettled
  /\ \A i \in 1..Len(results) : results[i] = <<>>
  /\ ~anyFailed
  /\ returned = FallbackOf(variant)

\* C3: in a finished run whose progress callback (if any) returned normally
\* from every call, if some batches failed and another batch returned a
\* titled in-range record, the run ended in SUCCESS and every titled record
\* a batch returned has a record with the same dedup key in the result.
C3_BatchIsolation ==
  (Done /\ ~cbThrew) =>
    \A i \in 1..Len(results) : \A j \in 1..Len(results[i]) :
      Titled(results[i][j]) =>
        /\ phase = "SUCCESS"
        /\ \E k \in 1..Len(returned) :
             SpecKey(variant, returned[k]) = SpecKey(variant, results[i][j])

C3_Witness ==
  /\ phase = "SUCCESS"
  /\ anyFailed
  /\ \E i \in 1..Len(results) : \E j \in 1..Len(results[i]) : Titled(results[i][j])
  /\ \E i \in 1..Len(results) : results[i] = <<>>

\* the texts of RespPool that JSON.parse cannot decode
UndecodableTexts ==
  { <<Prose>>, <<LB, ObjTok(mA)>>, <<RB, Prose, LB>>,
    <<LB, ObjTok(mA), RB, Prose, LB, ObjTok(mB), RB>> }

\* the texts of RespPool that decode to something that is not an array
NonArrayTexts == { <<NullTok>>, <<ObjTok(mA)>> }

\* the response is one of the failures C4 lists
FailingResponse(resp) ==
  \/ resp.kind = "reject"
  \/ /\ "text" \in DOMAIN resp
     /\ \/ resp.text \in UndecodableTexts
        \/ resp.text \in NonArrayTexts
        \/ Len(resp.text) > 1 /\ \E i \in 1..Len(resp.text) : resp.text[i] = NullTok

\* C4: fetchMoviesForPeriod never rejects, and it resolves to the empty
\* list when the request fails, the text cannot be decoded, or the decoded
\* value is an object, null, or an array with a null element.
C4_FetchNeverRejects ==
  (input.op = "fetch" /\ output.done) =>
    /\ output.promise.settled = "fulfilled"
    /\ FailingResponse(input.resp) => output.promise.value = <<>>

C4_Witness ==
  /\ input.op = "fetch"
  /\ output.done
  /\ input.resp = [kind |-> "ok", text |-> ArrayText(<<mA, Null>>)]
  /\ input.startYear <= 1990
  /\ 1990 <= input.endYear
  /\ output.promise.value = <<>>

\* C5: in the wave variant without a credential, no request is ever issued,
\* the callback (if supplied) is called exactly once, with the "API Key
\* missing" message, before the result is returned, and the result is
\* FALLBACK_DATA; the run can only fail to return when that callback call
\* threw.
C5_NoKeyGoesOffline ==
  (variant = "wave" /\ ~apiKey) =>
    /\ issued = 0
    /\ outstanding = {}
    /\ phase \in {"IDLE", "OFFLINE", "FALLBACK", "REJECTED"}
    /\ phase = "REJECTED" => cbThrew
    /\ phase \in {"OFFLINE", "FALLBACK", "REJECTED"} =>
         progress = (IF onProgress = "present" THEN <<MsgNoKey>> ELSE <<>>)
    /\ phase = "FALLBACK" => returned = FALLBACK_DATA

C5_Witness ==
  /\ variant = "wave"
  /\ ~apiKey
  /\ onProgress = "present"
  /\ phase = "FALLBACK"
  /\ progress = <<MsgNoKey>>
  /\ returned = FALLBACK_DATA

\* C6: in the service variant, no generation request is issued in a run
\* without the API_KEY credential.
C6_NoRequestWithoutKey ==
  (variant = "service" /\ ~apiKey) => issued = 0

\* C7: generateMovieDataset never resolves to an empty list: a run that
\* resolved returned at least one record.
C7_NeverEmptyResult ==
  Resolved => Len(returned) > 0

\* C8: no two records of a dataset returned by a SUCCESS run have the same
\* dedup key.
C8_NoDuplicateKeys ==
  phase = "SUCCESS" =>
    \A i, j \in 1..Len(returned) :
      i < j => SpecKey(variant, returned[i]) # SpecKey(variant, returned[j])

C8_Witness ==
  /\ phase = "SUCCESS"
  /\ variant = "wave"
  /\ \E i, j \in 1..Len(rawMovies) :
       /\ i < j
       /\ Titled(rawMovies[i])
       /\ Titled(rawMovies[j])
       /\ SpecKey(variant, rawMovies[i]) = SpecKey(variant, rawMovies[j])

\* positions of the merged list that hold the first titled record of a key
FirstSeen(v, raw) ==
  {i \in 1..Len(raw) :
     /\ Titled(raw[i])
     /\ \A j \in 1..(i - 1) :
          Titled(raw[j]) => SpecKey(v, raw[j]) # SpecKey(v, raw[i])}

\* the k-th smallest element of a set of numbers
NthOf(S, k) == CHOOSE i \in S : Cardinality({j \in S : j <= i}) = k

\* the two batches of the scenario: [{A, 1990}] and [{a, 1990}, {B, 1991}]
ScenarioBatches ==
  [i \in 1..MaxBatches |->
     IF i = 1 THEN <<mA>> ELSE IF i = 2 THEN <<ma, mB>> ELSE <<>>]

\* C9: the final list holds, in merged order, the first record of each
\* dedup key with its own title, and nothing else; the scenario's batches
\* give exactly id 1 titled A and id 2 titled B.
C9_FirstSeenWins ==
  (input.op = "merge" /\ output.done) =>
    LET raw == flat(input.batches)
        keep == FirstSeen(variant, raw)
        final == output.final
    IN  /\ Len(final) = Cardinality(keep)
        /\ \A k \in 1..Len(final) :
             /\ final[k].title = raw[NthOf(keep, k)].title
             /\ final[k].year = raw[NthOf(keep, k)].year
        /\ input.batches = ScenarioBatches =>
             final = << [id |-> "1", title |-> <<"A">>, year |-> 1990,
                         language |-> "English", genre |-> "Action"],
                        [id |-> "2", title |-> <<"B">>, year |-> 1991,
                         language |-> "Tamil", genre |-> "Comedy"] >>

C9_Witness ==
  /\ input.op = "merge"
  /\ output.done
  /\ input.batches = ScenarioBatches
  /\ Len(output.final) = 2

\* C10: the ids of a SUCCESS result of N records are "1" .. "N" in list
\* order, the i-th entry of the dedup map carrying id i with its other
\* properties unchanged, whatever id the source had given it.
C10_ContiguousIds ==
  phase = "SUCCESS" =>
    /\ Len(returned) = Len(uniqueMap)
    /\ \A k \in 1..Len(returned) :
         /\ returned[k].id = ToString(k)
         /\ DOMAIN returned[k] = DOMAIN uniqueMap[k].value \cup {"id"}
         /\ \A f \in DOMAIN uniqueMap[k].value \ {"id"} :
              returned[k][f] = uniqueMap[k].value[f]

C10_Witness ==
  /\ phase = "SUCCESS"
  /\ Len(returned) >= 2
  /\ \E k \in 1..Len(uniqueMap) :
       "id" \in DOMAIN uniqueMap[k].value /\ uniqueMap[k].value.id # ToString(k)
  /\ \E k \in 1..Len(uniqueMap) : "id" \notin DOMAIN uniqueMap[k].value

\* C11: every record of a returned list has a year between 1980 and 2025,
\* and a record of a SUCCESS result is a record some batch returned, with a
\* year inside the period of that batch.
C11_YearsInRange ==
  Resolved =>
    \A k \in 1..Len(returned) :
      /\ returned[k].year >= startYear
      /\ returned[k].year <= endYear
      /\ phase = "SUCCESS" =>
           \E i \in 1..Len(results) : \E j \in 1..Len(results[i]) :
             /\ returned[k] = ("id" :> ToString(k)) @@ results[i][j]
             /\ periods[i][1] <= returned[k].year
             /\ returned[k].year <= periods[i][2]

C11_Witness ==
  /\ phase = "SUCCESS"
  /\ \E k \in 1..Len(returned) : returned[k].year = 1990
  /\ \E k \in 1..Len(returned) : returned[k].year = 2000

\* C12: every record of a SUCCESS result has a language of the six
\* enumerated languages and a genre of the eight enumerated genres ('All'
\* is not one of them).
C12_EnumeratedValues ==
  phase = "SUCCESS" =>
    \A k \in 1..Len(returned) :
      /\ "language" \in DOMAIN returned[k]
      /\ returned[k].language \in LanguageType
      /\ "genre" \in DOMAIN returned[k]
      /\ returned[k].genre \in GenreType \ {"All"}

\* a period list that covers s..e: every range has start <= end, the first
\* starts at s, each next one starts the year after the previous one ends,
\* and the last ends at e
Covering(ps, s, e) ==
  /\ Len(ps) >= 1
  /\ \A i \in 1..Len(ps) : ps[i][1] <= ps[i][2]
  /\ ps[1][1] = s
  /\ \A i \in 1..(Len(ps) - 1) : ps[i + 1][1] = ps[i][2] + 1
  /\ ps[Len(ps)][2] = e

\* C13: the period list of each variant covers 1980..2025 with contiguous,
\* non-empty sub-ranges, and the stepping loop does so for every
\* start <= end and step >= 1.
C13_PeriodsCover ==
  output.done =>
    IF input.op = "periods"
    THEN Covering(output.periods, 1980, 2025)
    ELSE Covering(output.periods, input.startYear, input.endYear)

\* the last period is cut short by the end year
C13_Witness ==
  /\ output.done
  /\ input.op = "loop"
  /\ Len(output.periods) >= 2
  /\ LET last == output.periods[Len(output.periods)]
     IN  last[2] - last[1] + 1 < input.step

\* the arrays of record objects (no null element) the source can answer
RecordArrays == {es \in ElemSeqs(MaxRespLen) : \A i \in 1..Len(es) : ~IsNull(es[i])}

\* the indexes of the records of es with a year in s..e
InRangeIndexes(es, s, e) ==
  {i \in 1..Len(es) : "year" \in DOMAIN es[i] /\ s <= es[i].year /\ es[i].year <= e}

\* C14: for a response that decodes to an array of record objects,
\* fetchMoviesForPeriod resolves to the records with start <= year <= end,
\* in their order in the array, and to nothing else (a record without a
\* year is dropped).
C14_KeepsExactlyInRange ==
  (input.op = "fetch" /\ output.done) =>
    \A es \in RecordArrays :
      ( \/ input.resp = [kind |-> "ok", text |-> ArrayText(es)]
        \/ input.resp = [kind |-> "ok",
                         text |-> <<Prose>> \o ArrayText(es) \o <<Prose>>] ) =>
        LET keep == InRangeIndexes(es, input.startYear, input.endYear)
        IN  output.promise.value =
              [k \in 1..Cardinality(keep) |-> es[NthOf(keep, k)]]

C14_Witness ==
  /\ input.op = "fetch"
  /\ output.done
  /\ input.resp = [kind |-> "ok", text |-> ArrayText(<<mNoYear, mA>>)]
  /\ output.promise.value = <<mA>>

\* the calls of the progress callback a run over n periods makes when no
\* call throws and the run does not fail: the initial message, in the wave
\* variant one message per wave, and the message before the merge
ExpectedLog(v, n) ==
  IF v = "wave"
  THEN <<MsgInitWave>>
         \o [w \in 1..((n + BATCH_SIZE - 1) \div BATCH_SIZE) |->
               MsgFetching((w - 1) * BATCH_SIZE, n)]
         \o <<MsgFinalizing>>
  ELSE <<MsgInitService(n), MsgMerging>>

InFlight(v, n) ==
  IF v = "wave" THEN (((n - 1) \div BATCH_SIZE) * BATCH_SIZE + 1)..n ELSE 1..n

\* the list a run resolves to, from the variant, the credential and what
\* the batches resolved to
Outcome(v, key, res) ==
  LET raw == flat(res)
      fin == finalMovies(v, raw)
      none == IF v = "wave" THEN raw = <<>> ELSE fin = <<>>
  IN  IF v = "wave" /\ ~key THEN FALLBACK_DATA
      ELSE IF none THEN FallbackOf(v) ELSE fin

\* C16: as long as no callback call has thrown, the requests issued and the
\* list returned are functions of the variant, the credential and the
\* responses alone: the same schedule of requests and the same result with
\* and without a progress callback.
C16_CallbackChangesNothing ==
  ~cbThrew =>
    /\ phase = "FETCHING" =>
         /\ issued \in {Min(w * BATCH_SIZE, Len(periods)) : w \in 1..Len(periods)}
              \cup {Len(periods)}
         /\ variant # "wave" => issued = Len(periods)
         /\ outstanding \subseteq InFlight(variant, issued)
    /\ Resolved =>
         /\ issued = (IF variant = "wave" /\ ~apiKey THEN 0 ELSE Len(PeriodsOf(variant)))
         /\ outstanding = {}
         /\ returned = Outcome(variant, apiKey, results)

C16_Witness ==
  /\ onProgress = "present"
  /\ ~cbThrew
  /\ progress # <<>>
  /\ phase = "SUCCESS"
  /\ Len(returned) >= 2

\* C17: every run whose requests all settle ends in SUCCESS or in FALLBACK.
C17_EndsInSuccessOrFallback == <>(phase \in {"SUCCESS", "FALLBACK"})

\* the Record Schema invariants on a list (ratings and amounts with one
\* decimal are held in tenths)
SchemaOK(v, list) ==
  \A k \in 1..Len(list) :
    /\ list[k].id = ToString(k)
    /\ \A j \in 1..(k - 1) : SpecKey(v, list[j]) # SpecKey(v, list[k])
    /\ list[k].language \in LanguageType
    /\ list[k].genre \in GenreType \ {"All"}
    /\ list[k].imdbRating \in 0..100
    /\ list[k].rottenTomatoesRating \in 0..100
    /\ list[k].budget >= 0
    /\ list[k].revenue >= 0

\* C18: the list a run falls back to (each variant's own fallback list)
\* has ids "1".."N" in order, pairwise distinct dedup keys, enumerated
\* languages and genres, imdbRating within 0..10, rottenTomatoesRating
\* within 0..100 and non-negative budget and revenue.
C18_FallbackSchema ==
  phase = "FALLBACK" => (returned # <<>> /\ SchemaOK(variant, returned))

C18_Witness ==
  /\ phase = "FALLBACK"
  /\ variant = "service"
  /\ Len(returned) = 5
  /\ returned[5].id = "5"

\* the decades of the supported range: 198 for 1980-1989, ..., 202 for
\* 2020-2025
Decades == (startYear \div 10)..(endYear \div 10)

\* the list has every enumerated language, every enumerated genre and a
\* record in every decade
Covers(list) ==
  /\ \A l \in LanguageType : \E k \in 1..Len(list) : list[k].language = l
  /\ \A g \in GenreType \ {"All"} : \E k \in 1..Len(list) : list[k].genre = g
  /\ \A d \in Decades : \E k \in 1..Len(list) : list[k].year \div 10 = d

\* C19: the list a run falls back to covers the six languages, the eight
\* genres and every decade of 1980-2025.
C19_FallbackCoverage == phase = "FALLBACK" => Covers(returned)

\* C20: after every genre or language toggle both selections are non-empty,
\* and a toggle of the only selected genre (language) leaves the whole
\* FilterState as it was.
C20_SelectionsNeverEmpty ==
  [][/\ filters'.selectedGenres # <<>>
     /\ filters'.selectedLanguages # <<>>
     /\ (input'.op = "handleGenreToggle"
           /\ filters.selectedGenres = <<input'.item>>) => filters' = filters
     /\ (input'.op = "handleLanguageToggle"
           /\ filters.selectedLanguages = <<input'.item>>) => filters' = filters
    ]_vars

\* the checkbox of the only selected genre was toggled and the genre is
\* still selected
C20_Witness ==
  /\ input.op = "handleGenreToggle"
  /\ filters.selectedGenres = <<input.item>>
  /\ toggles = MaxToggles
  /\ filters.selectedLanguages = InitialFilters.selectedLanguages

\* C21: rawData changes only in the step in which a run resolves, and
\* then it is the returned list; it stays as it was when a run starts,
\* while a run is in progress, and when a run rejects, in which case the
\* error is set.
C21_RawDataReplacedOnResolve ==
  [][LET settles == inFlight' < inFlight
     IN  /\ app'.rawData # app.rawData =>
              (settles /\ output'.promise.settled = "fulfilled")
         /\ (settles /\ output'.promise.settled = "fulfilled") =>
              app'.rawData = output'.promise.value
         /\ (settles /\ output'.promise.settled = "rejected") =>
              /\ app'.rawData = app.rawData
              /\ app'.error = [message |-> MsgLoadFailed]
    ]_vars

\* a refresh was rejected and the list of the run before it is still there
C21_Witness ==
  /\ output.done
  /\ output.promise.settled = "rejected"
  /\ inFlight = 0
  /\ app.rawData = FALLBACK_DATA
  /\ app.error # Null

\* C22: in the wave variant requests are issued only when no request is
\* outstanding, so every request of a wave has settled (with records, or
\* in its catch block) before the next wave starts.
C22_WaveBarrier ==
  [][(variant = "wave" /\ issued' # issued) =>
       /\ outstanding = {}
       /\ issued' > issued
       /\ \A i \in 1..issued : i \notin outstanding'
    ]_vars

\* a batch of the first wave has failed, another one is outstanding, and
\* nothing of the second wave has been issued
C22_Witness ==
  /\ variant = "wave"
  /\ phase = "FETCHING"
  /\ anyFailed
  /\ issued = 4
  /\ outstanding # {}

\* C23: in the wave variant at most 4 requests are outstanding at any time,
\* and the 12 periods are requested in 3 waves: 1-4, 5-8, 9-12, in table
\* order.
C23_ThreeWavesOfFour ==
  [][variant = "wave" =>
       /\ Cardinality(outstanding') <= 4
       /\ issued' \in {0, 4, 8, 12}
       /\ issued' # issued =>
            /\ issued' = issued + 4
            /\ outstanding' = (issued + 1)..(issued + 4)
            /\ \A i \in outstanding' : periods[i] = WavePeriods[i]
       /\ phase' = "SUCCESS" => issued' = 12
    ]_vars

\* the third wave is in flight
C23_Witness ==
  /\ variant = "wave"
  /\ phase = "FETCHING"
  /\ issued = 12
  /\ outstanding = 9..12

\* C24: the merged list and the dedup map are filled only after every
\* request of the run has been issued and has settled, and the map changes
\* only in the merge step of the run.
C24_MergeAfterAllSettled ==
  [][/\ (rawMovies' # <<>> \/ uniqueMap' # <<>>
           \/ phase' \in {"MERGING", "SUCCESS"}) =>
          (outstanding' = {} /\ issued' = Len(periods') /\ periods' # <<>>)
     /\ uniqueMap' # uniqueMap => (phase = "MERGING" /\ outstanding = {})
    ]_vars

C24_Witness ==
  /\ phase = "SUCCESS"
  /\ Len(uniqueMap) >= 2
  /\ outstanding = {}

\* the positions of a token in a text
PositionsOf(text, tok) == {i \in 1..Len(text) : text[i] = tok}

SetMin(S) == CHOOSE i \in S : \A j \in S : i <= j

SetMax(S) == CHOOSE i \in S : \A j \in S : j <= i

\* the text from the first '[' to the last ']', both included, when both
\* exist and the last ']' is after the first '['; else the text itself
BracketSlice(text) ==
  LET opens == PositionsOf(text, LB)
      closes == PositionsOf(text, RB)
  IN  IF opens # {} /\ closes # {} /\ SetMax(closes) > SetMin(opens)
      THEN SubSeq(text, SetMin(opens), SetMax(closes))
      ELSE text

\* C25: for a response that arrived, the text handed to the decoder is the
\* bracket slice of the response text ("[]" for an empty or missing text);
\* when the slice is not a well-formed array the batch is the empty list,
\* and when it is an array of records the batch is its records of the
\* period.
C25_BracketSlice ==
  (input.op = "fetch" /\ output.done /\ input.resp.kind = "ok") =>
    LET raw == IF "text" \in DOMAIN input.resp /\ input.resp.text # <<>>
               THEN input.resp.text ELSE <<LB, RB>>
        slice == BracketSlice(raw)
        data == JSONparse(slice)
    IN  /\ cleanJson(raw) = slice
        /\ ~(data.ok /\ data.kind = "array") => output.promise.value = <<>>
        /\ (data.ok /\ data.kind = "array"
              /\ \A i \in 1..Len(data.elems) : ~IsNull(data.elems[i])) =>
             LET keep == InRangeIndexes(data.elems, input.startYear, input.endYear)
             IN  output.promise.value =
                   [k \in 1..Cardinality(keep) |-> data.elems[NthOf(keep, k)]]

\* "Here is the data: [{...}] Thanks!" decodes to its one record
C25_Witness ==
  /\ input.op = "fetch"
  /\ output.done
  /\ input.resp = [kind |-> "ok", text |-> <<Prose, LB, ObjTok(mA), RB, Prose>>]
  /\ output.promise.value = <<mA>>

\* a merged element that is a record with a non-empty title
Usable(m) == m # Null /\ "title" \in DOMAIN m /\ Len(m.title) > 0

\* the positions of the usable elements of a merged list
UsableIn(raw) == {i \in 1..Len(raw) : Usable(raw[i])}

\* C26: the final list holds exactly one record for the key of two
\* identical merged records, and the deduplication and re-indexing step
\* applied to a final list returns that list.
C26_DedupIdempotent ==
  (input.op = "merge" /\ output.done) =>
    LET raw == flat(input.batches)
        final == output.final
    IN  /\ finalMovies(variant, final) = final
        /\ \A i, j \in UsableIn(raw) :
             (i < j /\ raw[i] = raw[j]) =>
               Cardinality({k \in 1..Len(final) :
                              SpecKey(variant, final[k]) = SpecKey(variant, raw[i])}) = 1

C26_Witness ==
  /\ input.op = "merge"
  /\ output.done
  /\ input.batches = [i \in 1..MaxBatches |->
                        IF i = 1 THEN <<mB, mA>> ELSE IF i = 2 THEN <<mA>> ELSE <<>>]
  /\ Len(output.final) = 2
  /\ output.final[2].id = "2"

\* every batch result is stored under its own period
InOwnSlot ==
  \A i \in 1..Len(results) : \A j \in 1..Len(results[i]) :
    /\ periods[i][1] <= results[i][j].year
    /\ results[i][j].year <= periods[i][2]

\* C27: whatever the order in which the requests settle, each batch result
\* is stored under its own period, and the list of a SUCCESS run is the
\* first record of each key of the batch results taken in period order,
\* with ids in that order.
C27_CompletionOrderIrrelevant ==
  /\ InOwnSlot
  /\ phase = "SUCCESS" =>
       LET raw == flat(results)
           first == FirstSeen(variant, raw)
       IN  returned = [k \in 1..Cardinality(first) |->
                         ("id" :> ToString(k)) @@ raw[NthOf(first, k)]]

\* a run in which a response overtook an earlier request and in which a
\* later period repeated a title of an earlier one
C27_Witness ==
  /\ phase = "SUCCESS"
  /\ overtaken
  /\ variant = "service"
  /\ Len(flat(results)) > Len(returned)
  /\ Len(returned) >= 1

\* the lowercased, trimmed title
NormTitle(m) == trim(toLowerCase(m.title))

\* two usable merged records have the same normalized title and different
\* years
HasRemake(raw) ==
  \E i, j \in UsableIn(raw) :
    NormTitle(raw[i]) = NormTitle(raw[j]) /\ raw[i].year # raw[j].year

\* C28: on a merged list where some normalized title occurs with two
\* different years, the wave variant returns a record for every (title,
\* year) pair and the title-only variants one record per title, the first
\* merged one; on any other merged list all variants return the same list.
C28_KeyVariantsDiffer ==
  (input.op = "merge" /\ output.done) =>
    LET raw == flat(input.batches)
        byTitleYear == finalMovies("wave", raw)
        byTitle == finalMovies("service", raw)
    IN  /\ output.final = (IF variant = "wave" THEN byTitleYear ELSE byTitle)
        /\ ~HasRemake(raw) => byTitleYear = byTitle
        /\ HasRemake(raw) =>
             /\ Len(byTitle) < Len(byTitleYear)
             /\ \A i \in UsableIn(raw) :
                  /\ \E k \in 1..Len(byTitleYear) :
                       /\ NormTitle(byTitleYear[k]) = NormTitle(raw[i])
                       /\ byTitleYear[k].year = raw[i].year
                  /\ Cardinality({k \in 1..Len(byTitle) :
                                    NormTitle(byTitle[k]) = NormTitle(raw[i])}) = 1
             /\ \A k \in 1..Len(byTitle) :
                  \E i \in UsableIn(raw) :
                    /\ byTitle[k].title = raw[i].title
                    /\ byTitle[k].year = raw[i].year
                    /\ \A j \in UsableIn(raw) :
                         NormTitle(raw[j]) = NormTitle(raw[i]) => i <= j

\* the wave variant keeps the 1990 record and its remake of 2000
C28_Witness ==
  /\ input.op = "merge"
  /\ output.done
  /\ variant = "wave"
  /\ input.batches = [i \in 1..MaxBatches |->
                        IF i = 1 THEN <<mA>> ELSE IF i = 2 THEN <<mRemake>> ELSE <<>>]
  /\ Len(output.final) = 2
  /\ output.final[2].year = 2000

\* C29: no element of the final list is null or lacks a non-empty title,
\* the unusable merged elements take no id, and the usable ones are
\* deduplicated and returned as if the others were not there.
C29_UnusableDropped ==
  (input.op = "merge" /\ output.done) =>
    LET raw == flat(input.batches)
        final == output.final
        rest == [k \in 1..Cardinality(UsableIn(raw)) |-> raw[NthOf(UsableIn(raw), k)]]
    IN  /\ \A k \in 1..Len(final) : Usable(final[k]) /\ final[k].id = ToString(k)
        /\ Len(final) = Cardinality({SpecKey(variant, raw[i]) : i \in UsableIn(raw)})
        /\ final = finalMovies(variant, rest)

C29_Witness ==
  /\ input.op = "merge"
  /\ output.done
  /\ input.batches = [i \in 1..MaxBatches |->
                        IF i = 1 THEN <<Null, mA>>
                        ELSE IF i = 2 THEN <<mEmptyTitle, mB>> ELSE <<>>]
  /\ Len(output.final) = 2
  /\ output.final[2].id = "2"
  /\ output.final[2].title = <<"B">>

\* C30: at most one run of generateMovieDataset is in flight; loading is
\* true while one is, and false once it has settled, by a list or by a
\* rejection; a click starts a run only when loading is false.
C30_OneRunAtATime ==
  [][/\ inFlight' <= 1
     /\ inFlight' = 1 => app'.loading
     /\ inFlight' < inFlight => ~app'.loading
     /\ (inFlight' = 0 /\ fetches' > 0) => ~app'.loading
     /\ (fetches' > fetches /\ fetches > 0) => ~app.loading
    ]_vars

\* a refresh is in flight after the run before it was rejected
C30_Witness ==
  /\ fetches >= 2
  /\ inFlight = 1
  /\ app.loading
  /\ output.done
  /\ output.promise.settled = "rejected"

====
